---- MODULE Spec2Model ----
(***************************************************************************)
(* Model of the WhatsApp / HTTP AI gateway of src/index.js with the        *)
(* configuration of src/unnamed/part_000 (required as ./config).           *)
(*                                                                         *)
(* Time is counted in seconds.  Strings that are fingerprinted are         *)
(* sequences of ASCII codes (one UTF-8 byte and one UTF-16 unit each);     *)
(* reply and error texts are TLA+ strings.  JavaScript values are records  *)
(* with a type tag t.                                                      *)
(***************************************************************************)
EXTENDS Integers, Sequences, FiniteSets, TLC

VARIABLES
    whatsappClient,   \* index.js:76   "null" | "client"
    botStatus,        \* index.js:77
    connectedUsers,   \* index.js:78
    cache,            \* index.js:21   [data, stats] of the NodeCache instance
    now,              \* Date.now(), in seconds
    ticks,            \* number of clock advances so far (bounds the run)
    checkDue,         \* time at which NodeCache's periodic check timer is due
    tasks,            \* the handler invocations in flight, one record per slot
    last,             \* the handler invocation that ended last
    exited,           \* process.exit has been called
    destroyState,     \* whatsappClient.destroy(): "none" | "pending" | "completed"
    served,           \* history: replies returned from successful completion calls
    stored,           \* history: value and time of the last cache.set of each key
    flushed,          \* history: keys set before a flushAll and not set again since
    pending,          \* history: keys set before a flushAll and not looked up since
    failing           \* history: keys whose completion call failed, not set or looked up since

vars == <<whatsappClient, botStatus, connectedUsers, cache, now, ticks, checkDue,
          tasks, last, exited, destroyState, served, stored, flushed, pending,
          failing>>

----------------------------------------------------------------------------
(* Bounds of the model *)

MaxTasks == 2
MaxTicks == 2
MaxLookups == 3

(* Program constants *)

TTL == 300
CHECK_PERIOD == 600
MAX_MESSAGE_LENGTH == 2000
KEY_BASE64_LENGTH == 20

\* config.MESSAGES, part_000:68-69 (the emoji that ends ERROR_GENERIC is left out)
ERROR_GENERIC == "Sorry, something went wrong. Please try again!"
ERROR_AI_TIMEOUT == "AI response timeout. Please try with a shorter message."

----------------------------------------------------------------------------
(* JavaScript values *)

JsString(s) == [t |-> "string", s |-> s]
JsNumber(n) == [t |-> "number", n |-> n]
JsUndefined == [t |-> "undefined"]
JsNull == [t |-> "null"]

\* ToBoolean: what `if (x)` and `!x` and `x || y` test.
Truthy(v) ==
    CASE v.t = "string" -> Len(v.s) > 0
      [] v.t = "number" -> v.n # 0
      [] OTHER -> FALSE

Min(a, b) == IF a < b THEN a ELSE b

Rep(c, n) == [i \in 1..n |-> c]

----------------------------------------------------------------------------
(* Buffer.from(message).toString('base64').slice(0, 20), index.js:82.       *)
(* Base64 digits are the numbers 0..63, the padding "=" is 64.             *)

B64_PAD == 64

Base64Length(n) == 4 * ((n + 2) \div 3)

Base64Char(bytes, i) ==
    LET g == (i - 1) \div 4
        p == (i - 1) % 4
        n == Len(bytes)
        b0 == bytes[3 * g + 1]
        b1 == IF 3 * g + 2 <= n THEN bytes[3 * g + 2] ELSE 0
        b2 == IF 3 * g + 3 <= n THEN bytes[3 * g + 3] ELSE 0
    IN CASE p = 0 -> b0 \div 4
         [] p = 1 -> (b0 % 4) * 16 + (b1 \div 16)
         [] p = 2 -> IF 3 * g + 2 > n THEN B64_PAD ELSE (b1 % 16) * 4 + (b2 \div 64)
         [] p = 3 -> IF 3 * g + 3 > n THEN B64_PAD ELSE b2 % 64

\* toString('base64').slice(0, len): the first len digits of the encoding,
\* each computed from the bytes of its group.
Base64Slice(bytes, len) ==
    [i \in 1..Min(len, Base64Length(Len(bytes))) |-> Base64Char(bytes, i)]

\* mutant: the key without the platform
CacheKeyWithoutPlatform(message, platform) ==
    <<"ai_">> \o Base64Slice(message, KEY_BASE64_LENGTH)

\* `ai_${platform}_${...}`
CacheKey(message, platform) ==
    <<"ai_", platform, "_">> \o Base64Slice(message, KEY_BASE64_LENGTH)

----------------------------------------------------------------------------
(* The NodeCache instance of index.js:21-24 (stdTTL = CACHE.TTL,           *)
(* checkperiod = CACHE.CHECK_PERIOD, deleteOnExpire by default).           *)
(* data maps each key present to [v |-> value, t |-> time it lives until]. *)

EmptyData == [k \in {} |-> JsUndefined]

NoStats == [hits |-> 0, misses |-> 0, keys |-> 0]

NewCache == [data |-> EmptyData, stats |-> NoStats]

\* mutant: the two options of the cache swapped
StdTTLSwapped == CHECK_PERIOD

\* options.stdTTL of the instance
StdTTL == TTL

\* options.checkperiod of the instance
CheckPeriod == CHECK_PERIOD

\* NodeCache._check: an entry is expired once its lifetime lies in the past.
Expired(entry, time) == entry.t # 0 /\ entry.t < time

Remove(data, key) == [k \in (DOMAIN data) \ {key} |-> data[k]]

\* cache.del(key) as _check calls it
CacheDel(c, key) ==
    IF key \in DOMAIN c.data
    THEN [data |-> Remove(c.data, key),
          stats |-> [c.stats EXCEPT !.keys = @ - 1]]
    ELSE c

CacheLive(c, key, time) == key \in DOMAIN c.data /\ ~Expired(c.data[key], time)

\* cache.get(key): the value returned ...
CacheGetValue(c, key, time) ==
    IF CacheLive(c, key, time) THEN c.data[key].v ELSE JsUndefined

\* ... and the cache it leaves: a hit or a miss is counted, and an expired
\* entry found by the lookup is deleted.
CacheAfterGet(c, key, time) ==
    IF CacheLive(c, key, time)
    THEN [c EXCEPT !.stats.hits = @ + 1]
    ELSE LET d == CacheDel(c, key)
         IN [d EXCEPT !.stats.misses = @ + 1]

\* cache.set(key, value): insert or overwrite, living until now + stdTTL.
CacheSet(c, key, value, time) ==
    [data |-> [k \in (DOMAIN c.data) \cup {key} |->
                  IF k = key THEN [v |-> value, t |-> time + StdTTL] ELSE c.data[k]],
     stats |-> IF key \in DOMAIN c.data THEN c.stats
               ELSE [c.stats EXCEPT !.keys = @ + 1]]

\* mutant: cache.flushStats() called in place of cache.flushAll()
CacheFlushStatsOnly(c) == [data |-> c.data, stats |-> NoStats]

\* cache.flushAll(): drops the data and resets the statistics.
CacheFlushAll(c) == NewCache

\* cache.keys()
CacheKeys(c) == DOMAIN c.data

\* NodeCache._checkData: the periodic check deletes every expired entry.
CacheCheckData(c, time) ==
    LET live == {k \in DOMAIN c.data : ~Expired(c.data[k], time)}
    IN [data |-> [k \in live |-> c.data[k]],
        stats |-> [c.stats EXCEPT !.keys = Cardinality(live)]]

----------------------------------------------------------------------------
(* getAIResponse, index.js:81-130.  The function runs up to the            *)
(* `await axios.post` in one piece, and from the arrival of the answer to  *)
(* its return or throw in another.                                         *)

\* config.FEATURES.ENABLE_CACHING, part_000:58
ENABLE_CACHING == TRUE

\* config.AI.SYSTEM_PROMPTS, part_000:13-17
SYSTEM_PROMPTS ==
    [whatsapp |-> "You are a friendly, helpful WhatsApp AI assistant.",
     web |-> "You are a smart, professional AI assistant.",
     default |-> "You are a helpful AI assistant."]

\* index.js:94
SystemPrompt(platform) ==
    IF platform \in DOMAIN SYSTEM_PROMPTS /\ SYSTEM_PROMPTS[platform] # ""
    THEN SYSTEM_PROMPTS[platform] ELSE SYSTEM_PROMPTS.default

\* mutant: the reply is returned without being stored
GetAIResponseStoreSkipped(c, message, platform, aiReply, time) == c

\* index.js:85-90: the lookup returns early when the cached value is truthy.
GetAIResponseHit(c, message, platform, time) ==
    ENABLE_CACHING /\ Truthy(CacheGetValue(c, CacheKey(message, platform), time))

\* the cache after lines 85-91
GetAIResponseLookup(c, message, platform, time) ==
    IF ENABLE_CACHING THEN CacheAfterGet(c, CacheKey(message, platform), time) ELSE c

\* What axios.post and line 112 can produce: a completion whose content is
\* read at line 112, or an error with a code and a message of its own.
Completion(content) == [type |-> "ok", content |-> content, code |-> "", message |-> ""]
Failure(code, message) ==
    [type |-> "error", content |-> JsUndefined, code |-> code, message |-> message]

RAW_TIMEOUT == "timeout of 30000ms exceeded"
RAW_REFUSED == "connect ECONNREFUSED 10.0.0.1:443"
RAW_MALFORMED == "Cannot read properties of undefined (reading '0')"
RAW_SEND == "Evaluation failed: invalid wid"
RAW_SUBSTRING == "Cannot read properties of null (reading 'substring')"
RAW_INCLUDES == "number.includes is not a function"

RawErrors ==
    {RAW_TIMEOUT, RAW_REFUSED, RAW_MALFORMED, RAW_SEND, RAW_SUBSTRING, RAW_INCLUDES}

\* mutant: the caught error is thrown on as it is
CompletionErrorRethrown(o) == o.message

\* index.js:121-129: the error getAIResponse throws for a failed call
CompletionError(o) ==
    IF o.code = "ECONNABORTED" THEN ERROR_AI_TIMEOUT ELSE ERROR_GENERIC

\* mutant: the catch block stores the message it is about to throw
GetAIResponseCatchStoring(c, key, o, time) ==
    CacheSet(c, key, JsString(CompletionError(o)), time)

\* index.js:121-129: the cache after the catch block
GetAIResponseCatch(c, key, o, time) == c

\* index.js:114-117: the cache after a completion with content aiReply
GetAIResponseStore(c, message, platform, aiReply, time) ==
    IF ENABLE_CACHING THEN CacheSet(c, CacheKey(message, platform), aiReply, time) ELSE c

----------------------------------------------------------------------------
(* Handler invocations.  A slot holds one invocation from its start to the *)
(* state it ends in; a finished slot is taken by the next invocation.      *)

Slots == 1..MaxTasks

NotStored == [v |-> JsUndefined, at |-> -1, platform |-> "", message |-> <<>>]

IdleTask ==
    [kind |-> "idle", pc |-> "idle",
     input |-> JsUndefined,       \* req.body.message / msg.body
     from |-> "",                 \* msg.from
     fromMe |-> FALSE,            \* msg.fromMe
     number |-> JsUndefined,      \* req.body.number
     sessionId |-> JsUndefined,   \* req.body.sessionId
     reply |-> JsUndefined,       \* aiReply
     error |-> "",                \* message of the error caught by the handler
     responses |-> <<>>,          \* what was sent through res
     delivered |-> <<>>,          \* texts passed to msg.reply
     uncaught |-> FALSE,          \* an exception left the handler
     apiCalls |-> 0,              \* axios.post calls of this invocation
     cacheGets |-> 0,             \* cache.get calls of this invocation
     cacheSets |-> 0,             \* cache.set calls of this invocation
     arrivedIn |-> "",            \* botStatus when the invocation started
     dispatchedIn |-> "",         \* botStatus when sendMessage was called
     failed |-> FALSE,            \* the completion call failed
     raw |-> "",                  \* the message of the error it failed with
     seen |-> JsUndefined,        \* the value last stored under the key, at the cache.get
     seenFrom |-> [platform |-> "", message |-> <<>>],  \* the call it was stored by
     age |-> -1,                  \* the time since it was stored, at the cache.get
     keyFlushed |-> FALSE,        \* the key was flushed and not set again since
     firstAfterFlush |-> FALSE,   \* the first lookup of the key since it was flushed
     prior |-> {},                \* replies served for the same request within TTL
     report |-> JsUndefined,      \* the figures a GET route answered with
     prompt |-> "",               \* the system prompt of the axios.post call
     writes |-> 0]                \* calls of res.json of this invocation

\* Slot i is the first free slot: a new invocation takes that one.
Free(i) == tasks[i].pc = "idle" /\ \A j \in 1..(i - 1) : tasks[j].pc # "idle"

\* The invocation of slot i goes on as t; when t has ended it leaves the slot.
Put(i, t) ==
    IF t.pc = "done"
    THEN tasks' = [tasks EXCEPT ![i] = IdleTask] /\ last' = t
    ELSE tasks' = [tasks EXCEPT ![i] = t] /\ last' = last

Running == ~exited

\* the replies returned from successful completion calls for this request that
\* a handling starting now is still within the TTL of
Prior(platform, message) ==
    {h.reply : h \in {x \in served : x.platform = platform /\ x.message = message}}

\* the history keeps the latest such reply of each request
Record(platform, message, aiReply) ==
    {h \in served : h.platform # platform \/ h.message # message}
        \cup {[platform |-> platform, message |-> message, reply |-> aiReply, at |-> now]}

\* the history of cache.set: the key of (platform, message) was set to value now
Stored(platform, message, value) ==
    [k \in (DOMAIN stored) \cup {CacheKey(message, platform)} |->
        IF k = CacheKey(message, platform)
        THEN [v |-> value, at |-> now, platform |-> platform, message |-> message]
        ELSE stored[k]]

\* what the history says of the key a lookup is about to read
Seen(key) == IF key \in DOMAIN stored THEN stored[key] ELSE NotStored

\* the invocation t as it reads the cache at line 86
Looked(t, platform, message) ==
    [t EXCEPT !.cacheGets = 1,
              !.seen = Seen(CacheKey(message, platform)).v,
              !.seenFrom = [platform |-> Seen(CacheKey(message, platform)).platform,
                            message |-> Seen(CacheKey(message, platform)).message],
              !.age = IF CacheKey(message, platform) \in DOMAIN stored
                      THEN now - Seen(CacheKey(message, platform)).at ELSE -1,
              !.keyFlushed = (CacheKey(message, platform) \in flushed),
              !.firstAfterFlush = (CacheKey(message, platform) \in pending),
              !.prior = Prior(platform, message)]

\* the history of failed calls: a call for key has failed; the key is kept
\* unless a call that was in flight together with this one has stored it
Failed(key) ==
    IF Truthy(CacheGetValue(cache, key, now)) THEN failing \ {key} ELSE failing \cup {key}

\* key has been stored
Overtaken(key) == failing \ {key}

\* key is looked up by a new handling
Retried(key) == failing \ {key}

LookupsLeft == cache.stats.hits + cache.stats.misses < MaxLookups

----------------------------------------------------------------------------
(* POST /api/chat, index.js:237-276 *)

ANONYMOUS == JsString("anonymous")

MSG_REQUIRED == "Message is required and must be a string"
MSG_TOO_LONG == "Message too long. Maximum 2000 characters allowed."

\* mutant: the length test written >= in place of >
ChatValidationOffByOne(message) ==
    IF ~Truthy(message) \/ message.t # "string" THEN MSG_REQUIRED
    ELSE IF Len(message.s) >= MAX_MESSAGE_LENGTH THEN MSG_TOO_LONG
    ELSE ""

\* index.js:241-251: the text of the 400 answer, "" when the message passes
ChatValidation(message) ==
    IF ~Truthy(message) \/ message.t # "string" THEN MSG_REQUIRED
    ELSE IF Len(message.s) > MAX_MESSAGE_LENGTH THEN MSG_TOO_LONG
    ELSE ""

\* index.js:258-263
ChatReply(aiReply, sessionId) ==
    [status |-> 200, error |-> "", reply |-> aiReply,
     sessionId |-> IF Truthy(sessionId) THEN sessionId ELSE ANONYMOUS]

\* index.js:270-274
ChatFailure(message) ==
    [status |-> 500, error |-> IF message # "" THEN message ELSE ERROR_GENERIC,
     reply |-> JsUndefined, sessionId |-> JsUndefined]

BadRequest(text) ==
    [status |-> 400, error |-> text, reply |-> JsUndefined, sessionId |-> JsUndefined]

\* index.js:258-275 once aiReply is known: the answer is sent, then line 265
\* reads aiReply.substring; when that throws, the catch block's res.status(500)
\* .json(...) runs on a response already sent and throws in turn.
ChatAnswered(t, aiReply) ==
    [t EXCEPT !.pc = "done", !.reply = aiReply,
              !.responses = Append(@, ChatReply(aiReply, t.sessionId)),
              !.writes = IF aiReply.t = "string" THEN 1 ELSE 2,
              !.error = IF aiReply.t = "string" THEN "" ELSE RAW_SUBSTRING,
              !.uncaught = (aiReply.t # "string")]

\* The request arrives: validation, then getAIResponse up to its await.
ApiChat(i, message, sessionId) ==
    /\ Running /\ whatsappClient # "null" /\ Free(i)
    /\ LET t == [IdleTask EXCEPT !.kind = "chat", !.input = message,
                                 !.sessionId = sessionId, !.arrivedIn = botStatus]
           invalid == ChatValidation(message)
       IN IF invalid # ""
          THEN /\ Put(i, [t EXCEPT !.pc = "done",
                                    !.responses = <<BadRequest(invalid)>>,
                                    !.writes = 1])
               /\ UNCHANGED <<cache, pending, failing>>
          ELSE /\ LookupsLeft
               /\ cache' = GetAIResponseLookup(cache, message.s, "web", now)
               /\ pending' = pending \ {CacheKey(message.s, "web")}
               /\ failing' = Retried(CacheKey(message.s, "web"))
               /\ Put(i,
                    LET u == Looked(t, "web", message.s)
                    IN IF GetAIResponseHit(cache, message.s, "web", now)
                       THEN ChatAnswered(u,
                                CacheGetValue(cache, CacheKey(message.s, "web"), now))
                       ELSE [u EXCEPT !.pc = "awaiting", !.apiCalls = 1,
                                      !.prompt = SystemPrompt("web")])
    /\ UNCHANGED <<whatsappClient, botStatus, connectedUsers, now, ticks, checkDue,
                   exited, destroyState, served, stored, flushed>>

\* The completion call of a /api/chat request ends with outcome o.
ApiChatCompletion(i, o) ==
    /\ Running /\ tasks[i].kind = "chat" /\ tasks[i].pc = "awaiting"
    /\ LET t == tasks[i]
           key == CacheKey(t.input.s, "web")
       IN IF o.type = "ok"
          THEN /\ cache' = GetAIResponseStore(cache, t.input.s, "web", o.content, now)
               /\ served' = Record("web", t.input.s, o.content)
               /\ stored' = Stored("web", t.input.s, o.content)
               /\ flushed' = flushed \ {key}
               /\ UNCHANGED pending
               /\ failing' = Overtaken(key)
               /\ Put(i, ChatAnswered([t EXCEPT !.cacheSets = 1], o.content))
          ELSE /\ Put(i, [t EXCEPT !.pc = "done", !.error = CompletionError(o),
                                    !.failed = TRUE, !.raw = o.message,
                                    !.writes = 1,
                                    !.responses =
                                        Append(@, ChatFailure(CompletionError(o)))])
               /\ cache' = GetAIResponseCatch(cache, key, o, now)
               /\ failing' = Failed(key)
               /\ UNCHANGED <<served, stored, flushed, pending>>
    /\ UNCHANGED <<whatsappClient, botStatus, connectedUsers, now, ticks, checkDue,
                   exited, destroyState>>

----------------------------------------------------------------------------
(* whatsappClient.on("message"), index.js:171-198 *)

STATUS_BROADCAST == "status@broadcast"

\* mutant: the catch block only logs the error
MessageCaughtSilently(t, message) ==
    [t EXCEPT !.pc = "done", !.error = message]

\* index.js:189-196: the catch block sends the generic message
MessageCaught(t, message) ==
    [t EXCEPT !.pc = "replyingError", !.error = message,
              !.delivered = Append(@, JsString(ERROR_GENERIC))]

\* index.js:185: msg.reply(aiReply) is started
MessageReplying(t, aiReply) ==
    [t EXCEPT !.pc = "replying", !.reply = aiReply, !.delivered = Append(@, aiReply)]

\* mutant: the bot's own messages are not skipped
SkippedOnlyBroadcast(from, fromMe) == from = STATUS_BROADCAST

\* index.js:174: messages the handler skips
Skipped(from, fromMe) == from = STATUS_BROADCAST \/ fromMe

\* A message event: the filter, connectedUsers.add, getAIResponse up to its await.
Message(i, from, fromMe, body) ==
    /\ Running /\ whatsappClient # "null" /\ Free(i)
    /\ LET t == [IdleTask EXCEPT !.kind = "message", !.input = body, !.from = from,
                                 !.fromMe = fromMe, !.arrivedIn = botStatus]
       IN IF Skipped(from, fromMe)
          THEN /\ Put(i, [t EXCEPT !.pc = "done"])
               /\ UNCHANGED <<cache, connectedUsers, pending, failing>>
          ELSE /\ LookupsLeft
               /\ connectedUsers' = connectedUsers \cup {from}
               /\ cache' = GetAIResponseLookup(cache, body.s, "whatsapp", now)
               /\ pending' = pending \ {CacheKey(body.s, "whatsapp")}
               /\ failing' = Retried(CacheKey(body.s, "whatsapp"))
               /\ Put(i,
                    LET u == Looked(t, "whatsapp", body.s)
                    IN IF GetAIResponseHit(cache, body.s, "whatsapp", now)
                       THEN MessageReplying(u,
                                CacheGetValue(cache, CacheKey(body.s, "whatsapp"), now))
                       ELSE [u EXCEPT !.pc = "awaiting", !.apiCalls = 1,
                                      !.prompt = SystemPrompt("whatsapp")])
    /\ UNCHANGED <<whatsappClient, botStatus, now, ticks, checkDue,
                   exited, destroyState, served, stored, flushed>>

\* The completion call of a chat message ends with outcome o.
MessageCompletion(i, o) ==
    /\ Running /\ tasks[i].kind = "message" /\ tasks[i].pc = "awaiting"
    /\ LET t == tasks[i]
           key == CacheKey(t.input.s, "whatsapp")
       IN IF o.type = "ok"
          THEN /\ cache' = GetAIResponseStore(cache, t.input.s, "whatsapp", o.content, now)
               /\ served' = Record("whatsapp", t.input.s, o.content)
               /\ stored' = Stored("whatsapp", t.input.s, o.content)
               /\ flushed' = flushed \ {key}
               /\ UNCHANGED pending
               /\ failing' = Overtaken(key)
               /\ Put(i, MessageReplying([t EXCEPT !.cacheSets = 1], o.content))
          ELSE /\ Put(i, MessageCaught([t EXCEPT !.failed = TRUE, !.raw = o.message],
                                        CompletionError(o)))
               /\ cache' = GetAIResponseCatch(cache, key, o, now)
               /\ failing' = Failed(key)
               /\ UNCHANGED <<served, stored, flushed, pending>>
    /\ UNCHANGED <<whatsappClient, botStatus, connectedUsers, now, ticks, checkDue,
                   exited, destroyState>>

\* msg.reply(aiReply) of line 185 settles; line 187 then reads aiReply.substring.
MessageReplyDone(i, ok) ==
    /\ Running /\ tasks[i].kind = "message" /\ tasks[i].pc = "replying"
    /\ LET t == tasks[i]
       IN Put(i,
            IF ~ok THEN MessageCaught(t, RAW_SEND)
            ELSE IF t.reply.t # "string" THEN MessageCaught(t, RAW_SUBSTRING)
            ELSE [t EXCEPT !.pc = "done"])
    /\ UNCHANGED <<whatsappClient, botStatus, connectedUsers, cache, now, ticks,
                   checkDue, exited, destroyState, served, stored, flushed, pending, failing>>

\* msg.reply(ERROR_GENERIC) of line 193 settles; a failure is logged (194-196).
MessageErrorReplyDone(i, ok) ==
    /\ Running /\ tasks[i].kind = "message" /\ tasks[i].pc = "replyingError"
    /\ Put(i, [tasks[i] EXCEPT !.pc = "done",
                                !.error = IF ok THEN @ ELSE RAW_SEND])
    /\ UNCHANGED <<whatsappClient, botStatus, connectedUsers, cache, now, ticks,
                   checkDue, exited, destroyState, served, stored, flushed, pending, failing>>

----------------------------------------------------------------------------
(* POST /api/send, index.js:297-329 *)

MSG_NOT_READY == "WhatsApp bot not ready"
MSG_SEND_REQUIRED == "Number and message are required"

Answer(status, text) ==
    [status |-> status, error |-> text, reply |-> JsUndefined, sessionId |-> JsUndefined]

\* mutant: only the existence of the client is tested
SendRefusedWithoutStatus(client, status) == client = "null"

\* index.js:301: the request is refused with 503
SendRefused(client, status) == client = "null" \/ status # "ready"

\* The request arrives: the checks, then whatsappClient.sendMessage is called.
ApiSend(i, number, message) ==
    /\ Running /\ whatsappClient # "null" /\ Free(i)
    /\ LET t == [IdleTask EXCEPT !.kind = "send", !.input = message, !.number = number,
                                 !.arrivedIn = botStatus]
       IN Put(i,
            IF SendRefused(whatsappClient, botStatus)
            THEN [t EXCEPT !.pc = "done", !.writes = 1,
                           !.responses = <<Answer(503, MSG_NOT_READY)>>]
            ELSE IF ~Truthy(number) \/ ~Truthy(message)
            THEN [t EXCEPT !.pc = "done", !.writes = 1,
                           !.responses = <<Answer(400, MSG_SEND_REQUIRED)>>]
            ELSE IF number.t # "string"
            THEN \* line 314: number.includes throws, lines 325-328 answer
                 [t EXCEPT !.pc = "done", !.error = RAW_INCLUDES,
                           !.responses = <<Answer(500, RAW_INCLUDES)>>, !.writes = 1]
            ELSE [t EXCEPT !.pc = "sending", !.dispatchedIn = botStatus])
    /\ UNCHANGED <<whatsappClient, botStatus, connectedUsers, cache, now, ticks,
                   checkDue, exited, destroyState, served, stored, flushed, pending, failing>>

\* whatsappClient.sendMessage settles: lines 318-323, or the catch of 325-328.
ApiSendDone(i, ok) ==
    /\ Running /\ tasks[i].kind = "send" /\ tasks[i].pc = "sending"
    /\ LET t == tasks[i]
       IN Put(i,
            IF ok
            THEN [t EXCEPT !.pc = "done", !.responses = <<Answer(200, "")>>,
                           !.writes = IF t.input.t = "string" THEN 1 ELSE 2,
                           !.error = IF t.input.t = "string" THEN "" ELSE RAW_SUBSTRING,
                           !.uncaught = (t.input.t # "string")]
            ELSE [t EXCEPT !.pc = "done", !.error = RAW_SEND,
                           !.responses = <<Answer(500, RAW_SEND)>>, !.writes = 1])
    /\ UNCHANGED <<whatsappClient, botStatus, connectedUsers, cache, now, ticks,
                   checkDue, exited, destroyState, served, stored, flushed, pending, failing>>

----------------------------------------------------------------------------
(* The other routes *)

\* mutant: the route also forgets the users seen so far
ApiCacheClearResettingUsers ==
    /\ Running /\ whatsappClient # "null"
    /\ cache' = CacheFlushAll(cache)
    /\ checkDue' = now + CheckPeriod
    /\ connectedUsers' = {}
    /\ served' = {}
    /\ stored' = EmptyData
    /\ flushed' = flushed \cup DOMAIN stored
    /\ pending' = pending \cup DOMAIN stored
    /\ UNCHANGED failing
    /\ last' = [IdleTask EXCEPT !.kind = "clear", !.pc = "done",
                                !.arrivedIn = botStatus,
                                !.responses = <<Answer(200, "")>>, !.writes = 1]
    /\ UNCHANGED <<whatsappClient, botStatus, now, ticks, tasks, exited, destroyState>>

\* POST /api/cache/clear, index.js:332-344.  flushAll also restarts the
\* periodic check.
ApiCacheClear ==
    /\ Running /\ whatsappClient # "null"
    /\ cache' = CacheFlushAll(cache)
    /\ checkDue' = now + CheckPeriod
    /\ served' = {}
    /\ stored' = EmptyData
    /\ flushed' = flushed \cup DOMAIN stored
    /\ pending' = pending \cup DOMAIN stored
    /\ UNCHANGED failing
    /\ last' = [IdleTask EXCEPT !.kind = "clear", !.pc = "done",
                                !.arrivedIn = botStatus,
                                !.responses = <<Answer(200, "")>>, !.writes = 1]
    /\ UNCHANGED <<whatsappClient, botStatus, connectedUsers, now, ticks, tasks,
                   exited, destroyState>>

\* POST /api/webhook, index.js:279-294
ApiWebhook ==
    /\ Running /\ whatsappClient # "null"
    /\ last' = [IdleTask EXCEPT !.kind = "webhook", !.pc = "done",
                                !.arrivedIn = botStatus,
                                !.responses = <<Answer(200, "")>>, !.writes = 1]
    /\ UNCHANGED <<whatsappClient, botStatus, connectedUsers, cache, now, ticks,
                   checkDue, tasks, exited, destroyState, served, stored, flushed, pending, failing>>

\* A request whose body express.json (index.js:60) cannot parse goes to the
\* global error handler, index.js:373-379.
ApiUnparsable ==
    /\ Running /\ whatsappClient # "null"
    /\ last' = [IdleTask EXCEPT !.kind = "unparsable", !.pc = "done",
                                !.arrivedIn = botStatus,
                                !.responses = <<Answer(500, ERROR_GENERIC)>>, !.writes = 1]
    /\ UNCHANGED <<whatsappClient, botStatus, connectedUsers, cache, now, ticks,
                   checkDue, tasks, exited, destroyState, served, stored, flushed, pending, failing>>

\* GET /api/status, index.js:216-233
ApiStatus ==
    /\ Running /\ whatsappClient # "null"
    /\ last' = [IdleTask EXCEPT !.kind = "status", !.pc = "done",
                                !.arrivedIn = botStatus,
                                !.responses = <<Answer(200, "")>>, !.writes = 1,
                                !.report = [status |-> botStatus,
                                            connectedUsers |-> Cardinality(connectedUsers),
                                            keys |-> Cardinality(CacheKeys(cache)),
                                            stats |-> cache.stats]]
    /\ UNCHANGED <<whatsappClient, botStatus, connectedUsers, cache, now, ticks,
                   checkDue, tasks, exited, destroyState, served, stored, flushed, pending, failing>>

\* GET /api/analytics, index.js:347-356
ApiAnalytics ==
    /\ Running /\ whatsappClient # "null"
    /\ last' = [IdleTask EXCEPT !.kind = "analytics", !.pc = "done",
                                !.arrivedIn = botStatus,
                                !.responses = <<Answer(200, "")>>, !.writes = 1,
                                !.report = [totalUsers |-> Cardinality(connectedUsers),
                                            cacheHits |-> cache.stats.hits,
                                            cacheMisses |-> cache.stats.misses,
                                            botStatus |-> botStatus]]
    /\ UNCHANGED <<whatsappClient, botStatus, connectedUsers, cache, now, ticks,
                   checkDue, tasks, exited, destroyState, served, stored, flushed, pending, failing>>

----------------------------------------------------------------------------
(* Start-up, the lifecycle signals of the chat client, shutdown *)

\* app.listen's callback, index.js:408-418, runs setupWhatsAppClient (133-202)
Listen ==
    /\ Running /\ whatsappClient = "null"
    /\ whatsappClient' = "client"
    /\ UNCHANGED <<botStatus, connectedUsers, cache, now, ticks, checkDue, tasks, last,
                   exited, destroyState, served, stored, flushed, pending, failing>>

Signal(status) ==
    /\ Running /\ whatsappClient # "null"
    /\ botStatus' = status
    /\ UNCHANGED <<whatsappClient, connectedUsers, cache, now, ticks, checkDue, tasks, last,
                   exited, destroyState, served, stored, flushed, pending, failing>>

\* index.js:144-149
Qr == Signal("waiting_for_qr")

\* index.js:152-156
Ready == Signal("ready")

\* index.js:159-162
Authenticated == Signal("authenticated")

\* index.js:165-168
Disconnected == Signal("disconnected")

\* index.js:385-389 and 395-399: destroy() is called and not awaited, then
\* process.exit(0) ends the process in the same turn.
Shutdown ==
    /\ Running
    /\ destroyState' = IF whatsappClient # "null" THEN "pending" ELSE destroyState
    /\ exited' = TRUE
    /\ UNCHANGED <<whatsappClient, botStatus, connectedUsers, cache, now, ticks,
                   checkDue, tasks, last, served, stored, flushed, pending, failing>>

\* process.on('SIGTERM'), index.js:382-390
Sigterm == Shutdown

\* process.on('SIGINT'), index.js:392-400
Sigint == Shutdown

----------------------------------------------------------------------------
(* Time *)

\* The clock advances by d seconds.
Tick(d) ==
    /\ Running /\ ticks < MaxTicks
    /\ now' = now + d
    /\ ticks' = ticks + 1
    /\ served' = {h \in served : now + d < h.at + TTL}
    /\ UNCHANGED <<whatsappClient, botStatus, connectedUsers, cache, checkDue, tasks, last,
                   exited, destroyState, stored, flushed, pending, failing>>

\* NodeCache's check timer fires.
CheckData ==
    /\ Running /\ now >= checkDue
    /\ cache' = CacheCheckData(cache, now)
    /\ checkDue' = now + CheckPeriod
    /\ UNCHANGED <<whatsappClient, botStatus, connectedUsers, now, ticks, tasks, last,
                   exited, destroyState, served, stored, flushed, pending, failing>>

----------------------------------------------------------------------------
(* Initial state: the module has been loaded, index.js:17-78 *)

Init ==
    /\ whatsappClient = "null"
    /\ botStatus = "initializing"
    /\ connectedUsers = {}
    /\ cache = NewCache
    /\ now = 0
    /\ ticks = 0
    /\ checkDue = CheckPeriod
    /\ tasks = [i \in Slots |-> IdleTask]
    /\ last = IdleTask
    /\ exited = FALSE
    /\ destroyState = "none"
    /\ served = {}
    /\ stored = EmptyData
    /\ flushed = {}
    /\ pending = {}
    /\ failing = {}

----------------------------------------------------------------------------
(* Inputs *)

HI == <<104, 105>>
A15X == Rep(97, 15) \o <<120>>
A15Y == Rep(97, 15) \o <<121>>
LONGEST == Rep(97, MAX_MESSAGE_LENGTH)
TOO_LONG == Rep(97, MAX_MESSAGE_LENGTH + 1)

\* req.body.message of POST /api/chat
ChatMessages ==
    {JsUndefined, JsString(<<>>), JsNumber(7), JsString(HI), JsString(A15X),
     JsString(LONGEST), JsString(TOO_LONG)}

\* req.body.sessionId
SessionIds == {JsUndefined, JsString("s1"), JsString("")}

\* msg.from and msg.body of a chat message; the body of a message that is not
\* text (a picture without caption) is the empty string
Senders == {"u1@c.us", STATUS_BROADCAST}
Bodies == {JsString(HI), JsString(<<>>)}

\* req.body.number and req.body.message of POST /api/send
Numbers == {JsUndefined, JsString("123"), JsNumber(123)}
SendMessages == {JsUndefined, JsString(HI)}

\* what the completion call can end with
Completions == {Completion(JsString("r1")), Completion(JsString("r2")),
                Completion(JsString("")), Completion(JsNull)}
Failures == {Failure("ECONNABORTED", RAW_TIMEOUT), Failure("ECONNREFUSED", RAW_REFUSED),
             Failure("", RAW_MALFORMED)}
Outcomes == Completions \cup Failures

\* by how much the clock advances in one step
TickSteps == {1, TTL}

----------------------------------------------------------------------------
(* The whole program *)

Next ==
    \/ Listen
    \/ \E i \in Slots, m \in ChatMessages, s \in SessionIds : ApiChat(i, m, s)
    \/ \E i \in Slots, o \in Outcomes : ApiChatCompletion(i, o)
    \/ \E i \in Slots, f \in Senders, me \in BOOLEAN, b \in Bodies : Message(i, f, me, b)
    \/ \E i \in Slots, o \in Outcomes : MessageCompletion(i, o)
    \/ \E i \in Slots, ok \in BOOLEAN : MessageReplyDone(i, ok)
    \/ \E i \in Slots, ok \in BOOLEAN : MessageErrorReplyDone(i, ok)
    \/ \E i \in Slots, n \in Numbers, m \in SendMessages : ApiSend(i, n, m)
    \/ \E i \in Slots, ok \in BOOLEAN : ApiSendDone(i, ok)
    \/ ApiCacheClear
    \/ ApiWebhook
    \/ ApiUnparsable
    \/ ApiStatus
    \/ ApiAnalytics
    \/ Qr
    \/ Ready
    \/ Authenticated
    \/ Disconnected
    \/ Sigterm
    \/ Sigint
    \/ \E d \in TickSteps : Tick(d)
    \/ CheckData

Spec == Init /\ [][Next]_vars

----------------------------------------------------------------------------
(* Parts of the program, each with the inputs its properties are about *)

R1 == Completion(JsString("r1"))
R2 == Completion(JsString("r2"))
EMPTY_REPLY == Completion(JsString(""))
NULL_REPLY == Completion(JsNull)
TIMEOUT == Failure("ECONNABORTED", RAW_TIMEOUT)

\* The reply pipeline of both origins with the cache and its flush.
NextPipeline ==
    \/ Listen
    \/ \E i \in Slots : ApiChat(i, JsString(HI), JsUndefined)
    \/ \E i \in Slots, o \in {R1, R2, EMPTY_REPLY, TIMEOUT} : ApiChatCompletion(i, o)
    \/ \E i \in Slots : Message(i, "u1@c.us", FALSE, JsString(HI))
    \/ \E i \in Slots, o \in {R1, TIMEOUT} : MessageCompletion(i, o)
    \/ \E i \in Slots : MessageReplyDone(i, TRUE)
    \/ \E i \in Slots : MessageErrorReplyDone(i, TRUE)
    \/ ApiCacheClear

SpecPipeline == Init /\ [][NextPipeline]_vars

\* The cache over time: expiry, the periodic check, the flush.
NextExpiry ==
    \/ Listen
    \/ \E i \in Slots : ApiChat(i, JsString(HI), JsUndefined)
    \/ \E i \in Slots : ApiChatCompletion(i, R1)
    \/ ApiCacheClear
    \/ \E d \in TickSteps : Tick(d)
    \/ CheckData

SpecExpiry == Init /\ [][NextExpiry]_vars

\* The flush among handlings that run one at a time (in slot 1), so that no two
\* completion calls of one request are in flight together.
NextFlush ==
    \/ Listen
    \/ ApiChat(1, JsString(HI), JsUndefined)
    \/ \E o \in {R1, R2, TIMEOUT} : ApiChatCompletion(1, o)
    \/ ApiCacheClear
    \/ \E d \in TickSteps : Tick(d)
    \/ CheckData

SpecFlush == Init /\ [][NextFlush]_vars

\* POST /api/chat with every kind of request body and every outcome.
NextChat ==
    \/ Listen
    \/ \E i \in Slots, m \in ChatMessages : ApiChat(i, m, JsUndefined)
    \/ \E i \in Slots, o \in {R1, TIMEOUT} : ApiChatCompletion(i, o)

SpecChat == Init /\ [][NextChat]_vars

\* POST /api/send among the lifecycle signals.
NextSend ==
    \/ Listen
    \/ \E i \in Slots, n \in Numbers, m \in SendMessages : ApiSend(i, n, m)
    \/ \E i \in Slots, ok \in BOOLEAN : ApiSendDone(i, ok)
    \/ Qr
    \/ Ready
    \/ Authenticated
    \/ Disconnected

SpecSend == Init /\ [][NextSend]_vars

\* Every route that can answer with an error.
NextHttp ==
    \/ Listen
    \/ \E i \in Slots, m \in {JsUndefined, JsString(HI)} : ApiChat(i, m, JsUndefined)
    \/ \E i \in Slots, o \in {R1} \cup Failures : ApiChatCompletion(i, o)
    \/ \E i \in Slots, n \in Numbers, m \in SendMessages : ApiSend(i, n, m)
    \/ \E i \in Slots, ok \in BOOLEAN : ApiSendDone(i, ok)
    \/ ApiCacheClear
    \/ ApiWebhook
    \/ ApiUnparsable
    \/ Ready
    \/ Disconnected

SpecHttp == Init /\ [][NextHttp]_vars

\* Both origins with every outcome of the completion call.
NextReplies ==
    \/ Listen
    \/ \E i \in Slots : ApiChat(i, JsString(HI), JsUndefined)
    \/ \E i \in Slots, o \in {R1} \cup Failures : ApiChatCompletion(i, o)
    \/ \E i \in Slots : Message(i, "u1@c.us", FALSE, JsString(HI))
    \/ \E i \in Slots, o \in {R1} \cup Failures : MessageCompletion(i, o)
    \/ \E i \in Slots, ok \in BOOLEAN : MessageReplyDone(i, ok)
    \/ \E i \in Slots, ok \in BOOLEAN : MessageErrorReplyDone(i, ok)

SpecReplies == Init /\ [][NextReplies]_vars

\* The chat client: its signals, its messages, shutdown.
NextClient ==
    \/ Listen
    \/ \E i \in Slots, f \in Senders, me \in BOOLEAN, b \in Bodies : Message(i, f, me, b)
    \/ \E i \in Slots, o \in {R1, TIMEOUT} : MessageCompletion(i, o)
    \/ \E i \in Slots : MessageReplyDone(i, TRUE)
    \/ \E i \in Slots : MessageErrorReplyDone(i, TRUE)
    \/ Ready
    \/ Sigterm
    \/ Sigint

SpecClient == Init /\ [][NextClient]_vars

\* Every handler among the lifecycle signals: what each of them leaves alone.
NextFrame ==
    \/ Listen
    \/ ApiChat(1, JsString(HI), JsUndefined)
    \/ ApiChatCompletion(1, R1)
    \/ Message(1, "u1@c.us", FALSE, JsString(HI))
    \/ \E o \in {R1, TIMEOUT} : MessageCompletion(1, o)
    \/ MessageReplyDone(1, TRUE)
    \/ MessageErrorReplyDone(1, TRUE)
    \/ ApiSend(1, JsString("123"), JsString(HI))
    \/ ApiSendDone(1, TRUE)
    \/ ApiCacheClear
    \/ ApiWebhook
    \/ ApiAnalytics
    \/ Qr
    \/ Ready
    \/ Authenticated
    \/ Disconnected

SpecFrame == Init /\ [][NextFrame]_vars

\* The statistics of the cache among lookups, expiry and the flush.
NextStats ==
    \/ Listen
    \/ ApiChat(1, JsString(HI), JsUndefined)
    \/ \E o \in {R1, TIMEOUT} : ApiChatCompletion(1, o)
    \/ ApiCacheClear
    \/ ApiStatus
    \/ ApiAnalytics
    \/ \E d \in TickSteps : Tick(d)
    \/ CheckData

SpecStats == Init /\ [][NextStats]_vars

\* POST /api/chat with every session id and every outcome of the completion call.
NextAnswers ==
    \/ Listen
    \/ \E i \in Slots, m \in {JsUndefined, JsString(HI)}, s \in SessionIds : ApiChat(i, m, s)
    \/ \E i \in Slots, o \in {R1, EMPTY_REPLY, NULL_REPLY, TIMEOUT} : ApiChatCompletion(i, o)

SpecAnswers == Init /\ [][NextAnswers]_vars

\* Messages that share their first 15 bytes, on both platforms.
NextKeys ==
    \/ Listen
    \/ \E i \in Slots, m \in {HI, A15X, A15Y} : ApiChat(i, JsString(m), JsUndefined)
    \/ \E i \in Slots, o \in {R1, R2} : ApiChatCompletion(i, o)
    \/ \E i \in Slots : Message(i, "u1@c.us", FALSE, JsString(A15X))
    \/ \E i \in Slots : MessageCompletion(i, R1)
    \/ \E i \in Slots : MessageReplyDone(i, TRUE)

SpecKeys == Init /\ [][NextKeys]_vars

\* The message handler, one message at a time (in slot 1), with every outcome
\* of the completion call and of the replies.  The completion call always
\* ends: axios gives up after config.AI.TIMEOUT (index.js:109); so does each
\* msg.reply.
NextDelivery ==
    \/ Listen
    \/ \E f \in Senders, me \in BOOLEAN : Message(1, f, me, JsString(HI))
    \/ \E o \in {R1, NULL_REPLY, TIMEOUT} : MessageCompletion(1, o)
    \/ \E ok \in BOOLEAN : MessageReplyDone(1, ok)
    \/ \E ok \in BOOLEAN : MessageErrorReplyDone(1, ok)

SpecDelivery ==
    /\ Init /\ [][NextDelivery]_vars
    /\ WF_vars(\E o \in {R1, NULL_REPLY, TIMEOUT} : MessageCompletion(1, o))
    /\ WF_vars(\E ok \in BOOLEAN : MessageReplyDone(1, ok))
    /\ WF_vars(\E ok \in BOOLEAN : MessageErrorReplyDone(1, ok))

\* Messages of several senders, skipped or not, with replies that fail.
NextUsers ==
    \/ Listen
    \/ \E i \in Slots, f \in Senders \cup {"u2@c.us"}, me \in BOOLEAN :
          Message(i, f, me, JsString(HI))
    \/ \E i \in Slots, o \in {R1, TIMEOUT} : MessageCompletion(i, o)
    \/ \E i \in Slots, ok \in BOOLEAN : MessageReplyDone(i, ok)
    \/ \E i \in Slots : MessageErrorReplyDone(i, TRUE)

SpecUsers == Init /\ [][NextUsers]_vars

----------------------------------------------------------------------------
(* Properties *)

\* every handler invocation the state shows: those in flight and the last ended
Invocations == {tasks[i] : i \in Slots} \cup {last}

Handlings == {t \in Invocations : t.cacheGets = 1}

Answered(t) == t.pc \in {"replying", "replyingError", "done"}

\* C1: once a handling of (platform, message) has returned a reply r from a
\* successful completion call, every later handling of the same (platform,
\* message) that starts within the TTL and without a flush in between issues
\* no completion call and returns r, whatever value r is.
C1_SequentialIdempotence ==
    \A t \in Handlings :
        t.prior # {} =>
            /\ t.apiCalls = 0
            /\ Answered(t) => t.reply \in t.prior

\* C2: two handlings of the same (origin, message), the second starting while
\* the first awaits the completion API, invoke the completion client at most
\* once: no two completion calls for the same request are in flight together.
C2_InterleavedIdempotence ==
    \A i, j \in Slots :
        (i # j /\ tasks[i].pc = "awaiting" /\ tasks[j].pc = "awaiting")
            => ~(tasks[i].kind = tasks[j].kind /\ tasks[i].input = tasks[j].input)

\* what C3 calls an unacceptable message: missing, empty, not a string, or
\* longer than 2000 characters
C3_Unacceptable(m) ==
    m.t # "string" \/ Len(m.s) = 0 \/ Len(m.s) > 2000

\* C3: a POST /api/chat request with an unacceptable message is answered 400
\* without a completion call and without reading or writing the cache; a
\* message of exactly 2000 characters is accepted.
C3_ChatValidation ==
    \A t \in Invocations :
        t.kind = "chat" =>
            /\ C3_Unacceptable(t.input) =>
                  /\ t.pc = "done"
                  /\ Len(t.responses) = 1 /\ t.responses[1].status = 400
                  /\ t.apiCalls = 0 /\ t.cacheGets = 0 /\ t.cacheSets = 0
            /\ (t.input.t = "string" /\ Len(t.input.s) = 2000) =>
                  /\ t.cacheGets = 1
                  /\ \A k \in 1..Len(t.responses) : t.responses[k].status # 400

C3_Witness ==
    /\ last.kind = "chat" /\ last.input = JsString(TOO_LONG)
    /\ last.responses[1].status = 400
    /\ \E i \in Slots : tasks[i].input = JsString(LONGEST) /\ tasks[i].pc = "awaiting"

\* C4: a chat message whose body is empty or not text is rejected before
\* fingerprinting: no cache lookup, no completion call, nothing stored.
C4_ChatBodyValidation ==
    \A t \in Invocations :
        (t.kind = "message" /\ ~Truthy(t.input)) =>
            t.apiCalls = 0 /\ t.cacheGets = 0 /\ t.cacheSets = 0

\* C5: whatsappClient.sendMessage is called only while the client exists and
\* status is ready; a POST /api/send arriving in any other status is answered
\* 503 and dispatches nothing, whatever its number and message fields are.
C5_SendOnlyWhenReady ==
    \A t \in Invocations :
        t.kind = "send" =>
            /\ t.dispatchedIn # "" => t.dispatchedIn = "ready" /\ whatsappClient = "client"
            /\ t.arrivedIn # "ready" =>
                  /\ t.dispatchedIn = ""
                  /\ t.pc = "done"
                  /\ Len(t.responses) = 1 /\ t.responses[1].status = 503

C5_Witness ==
    /\ botStatus = "disconnected"
    /\ \E i \in Slots : tasks[i].pc = "sending" /\ tasks[i].dispatchedIn = "ready"
    /\ last.kind = "send" /\ last.arrivedIn = "disconnected"
    /\ last.number = JsUndefined /\ last.responses[1].status = 503

ConfiguredMessages == {ERROR_AI_TIMEOUT, ERROR_GENERIC}

\* C6: when the completion call fails, the text that reaches the user is a
\* configured message and not the text of the internal error: the error of
\* the /api/chat 500 body, and the reply to the chat message.
C6_SafeCompletionErrors ==
    \A t \in Invocations :
        t.failed =>
            /\ t.kind = "chat" =>
                  /\ Len(t.responses) = 1 /\ t.responses[1].status = 500
                  /\ t.responses[1].error \in ConfiguredMessages
                  /\ t.responses[1].error # t.raw
            /\ t.kind = "message" =>
                  /\ Len(t.delivered) = 1
                  /\ t.delivered[1].s \in ConfiguredMessages
                  /\ t.delivered[1].s # t.raw

C6_Witness ==
    /\ last.kind = "chat" /\ last.failed /\ last.raw = RAW_TIMEOUT
    /\ last.responses[1].error = ERROR_AI_TIMEOUT
    /\ \E i \in Slots :
          /\ tasks[i].kind = "message" /\ tasks[i].failed /\ tasks[i].raw = RAW_MALFORMED
          /\ tasks[i].delivered = <<JsString(ERROR_GENERIC)>>

HttpKinds == {"chat", "send", "clear", "webhook", "unparsable", "status", "analytics"}

\* C7: every error response of an HTTP handler carries a configured message;
\* the message of an internal exception never appears in a response body.
C7_NoInternalErrorInResponses ==
    \A t \in Invocations :
        t.kind \in HttpKinds =>
            \A k \in 1..Len(t.responses) :
                /\ t.responses[k].error \notin RawErrors
                /\ t.responses[k].status = 500 =>
                      t.responses[k].error \in ConfiguredMessages

\* what C8 says of the cache itself: every key set before the flush is absent,
\* and while nothing has been stored since, the cache holds and counts no key
C8_Flushed ==
    /\ \A k \in flushed :
          k \notin CacheKeys(cache) /\ CacheGetValue(cache, k, now) = JsUndefined
    /\ stored = EmptyData => (CacheKeys(cache) = {} /\ cache.stats.keys = 0)

\* C8 as claimed: after POST /api/cache/clear every key set before it is absent
\* and the key count is 0, so the next handling of any request cached before
\* the flush calls the completion client again.
C8_FlushEmptiesCacheClaimed ==
    /\ C8_Flushed
    /\ \A t \in Handlings : t.firstAfterFlush => t.apiCalls = 1

\* C8 as amended: ... so a handling of a request cached before the flush calls
\* the completion client again, unless a completion call that was in flight
\* during the flush has stored its key in between.
C8_FlushEmptiesCache ==
    /\ C8_Flushed
    /\ \A t \in Handlings : t.keyFlushed => t.apiCalls = 1

C8_Witness ==
    /\ last.kind = "clear" /\ flushed # {}
    /\ \E i \in Slots : tasks[i].keyFlushed /\ tasks[i].apiCalls = 1

\* C9 as claimed: a reply stored at time t under key k is what a lookup of k
\* returns at every time now < t + TTL, and no lookup returns it at any time
\* now >= t + TTL, whether or not the periodic check has run; a handling that
\* looks the key up after expiry calls the completion client.
C9_TtlVisibilityClaimed ==
    /\ \A k \in DOMAIN stored :
          /\ now < stored[k].at + TTL => CacheGetValue(cache, k, now) = stored[k].v
          /\ now >= stored[k].at + TTL => CacheGetValue(cache, k, now) = JsUndefined
    /\ \A t \in Handlings :
          t.age >= TTL => t.apiCalls = 1

\* C9 as amended: the reply is what a lookup returns at every time
\* now <= t + TTL and no lookup returns it at any time now > t + TTL, whether or
\* not the periodic check has run; a handling that looks the key up at a time
\* now > t + TTL calls the completion client.
C9_TtlVisibility ==
    /\ \A k \in DOMAIN stored :
          /\ now <= stored[k].at + TTL => CacheGetValue(cache, k, now) = stored[k].v
          /\ now > stored[k].at + TTL => CacheGetValue(cache, k, now) = JsUndefined
    /\ \A t \in Handlings :
          t.age > TTL => t.apiCalls = 1

\* a lookup at t + TTL was served from the cache, a later one was not, and the
\* periodic check has not run
C9_Witness ==
    /\ checkDue = CHECK_PERIOD /\ now < checkDue
    /\ last.cacheGets = 1 /\ last.age = TTL
    /\ last.apiCalls = 0 /\ last.reply = last.seen /\ Truthy(last.reply)
    /\ \E i \in Slots : tasks[i].age > TTL /\ tasks[i].apiCalls = 1

\* C10: on SIGTERM or SIGINT with a chat client, whatsappClient.destroy has
\* completed when the process exits.
C10_DestroyBeforeExit ==
    (exited /\ whatsappClient # "null") => destroyState = "completed"

\* the order of the statuses within one connection attempt
StatusRank(status) ==
    CASE status = "initializing" -> 0
      [] status = "waiting_for_qr" -> 1
      [] status = "authenticated" -> 2
      [] status = "ready" -> 3
      [] OTHER -> 4

Statuses == {"initializing", "waiting_for_qr", "authenticated", "ready", "disconnected"}

\* C11: status is always one of the five statuses and, within one connection
\* attempt (between two disconnected signals), never moves backward in the
\* order initializing < waiting_for_qr < authenticated < ready, in whatever
\* order the qr, authenticated and ready signals are delivered.
C11_MonotonicStatus ==
    /\ [](botStatus \in Statuses)
    /\ [][(botStatus # "disconnected" /\ botStatus' # "disconnected")
             => StatusRank(botStatus') >= StatusRank(botStatus)]_vars

\* a step of a handler of one of the kinds: an invocation of that kind starts,
\* goes on or ends
StepOf(kinds) ==
    \/ last' # last /\ last'.kind \in kinds
    \/ \E i \in Slots :
          /\ tasks'[i] # tasks[i]
          /\ tasks'[i].kind \in kinds \/ tasks[i].kind \in kinds

\* a step of one of the four lifecycle signal handlers
SignalStep == Qr \/ Ready \/ Authenticated \/ Disconnected

\* C12: status is changed only by the qr, ready, authenticated and
\* disconnected handlers: a step of the chat message handler or of an HTTP
\* handler, the arrival of a completion outcome included, leaves status
\* unchanged, and a step of an HTTP handler leaves connectedUsers unchanged.
C12_StatusFrame ==
    [][/\ botStatus' # botStatus => SignalStep
       /\ StepOf(HttpKinds \cup {"message"}) => botStatus' = botStatus
       /\ StepOf(HttpKinds) => connectedUsers' = connectedUsers]_vars

C12_Witness ==
    /\ botStatus = "authenticated" /\ connectedUsers = {"u1@c.us"}
    /\ last.kind = "clear" /\ last.arrivedIn = "authenticated"
    /\ tasks[1].kind = "chat" /\ tasks[1].pc = "awaiting"
    /\ tasks[1].arrivedIn = "waiting_for_qr"

\* C13: the hit and miss counters that /api/analytics and /api/status report
\* (cache.getStats() at the time of the request) never decrease, across chat
\* handlings, expiries and POST /api/cache/clear.
C13_CountersNeverDecrease ==
    [][/\ cache'.stats.hits >= cache.stats.hits
       /\ cache'.stats.misses >= cache.stats.misses]_vars

\* the invocation in slot i is a POST /api/chat request that missed the cache,
\* and in this step its completion call succeeds with a text
C14_Succeeds(i) ==
    /\ tasks[i].kind = "chat" /\ tasks[i].pc = "awaiting"
    /\ tasks'[i].pc = "idle"
    /\ ~last'.failed /\ last'.reply.t = "string"

\* what C14 says of the request that has just ended, but for the session id
C14_Answered(t) ==
    /\ t.apiCalls = 1 /\ t.prompt = SYSTEM_PROMPTS.web
    /\ t.cacheSets = 1
    /\ CacheGetValue(cache', CacheKey(t.input.s, "web"), now') = t.reply
    /\ t.writes = 1 /\ Len(t.responses) = 1
    /\ t.responses[1].status = 200 /\ t.responses[1].reply = t.reply

\* C14 as claimed: a valid POST /api/chat request that misses the cache and
\* whose completion call succeeds with text t invokes the completion client
\* exactly once with the web system prompt, t is stored under the request's
\* fingerprint when the response is sent, and the response is success with
\* reply t and sessionId the supplied sessionId, or "anonymous" when none is
\* supplied.
C14_ChatMissAnsweredClaimed ==
    [][\A i \in Slots :
          C14_Succeeds(i) =>
              /\ C14_Answered(last')
              /\ last'.responses[1].sessionId =
                     IF last'.sessionId # JsUndefined THEN last'.sessionId ELSE ANONYMOUS]_vars

\* C14 as amended: ... and sessionId the supplied sessionId when that is
\* truthy, "anonymous" otherwise (none supplied, or an empty one).
C14_ChatMissAnswered ==
    [][\A i \in Slots :
          C14_Succeeds(i) =>
              /\ C14_Answered(last')
              /\ last'.responses[1].sessionId =
                     IF Truthy(last'.sessionId) THEN last'.sessionId ELSE ANONYMOUS]_vars

C14_Witness ==
    /\ last.kind = "chat" /\ last.apiCalls = 1 /\ last.cacheSets = 1
    /\ last.sessionId = JsString("") /\ last.reply = JsString("r1")
    /\ last.responses = <<ChatReply(JsString("r1"), ANONYMOUS)>>
    /\ CacheGetValue(cache, CacheKey(HI, "web"), now) = JsString("r1")

\* C17: a POST /api/chat request, whatever its body and whatever the
\* completion call produces, writes exactly one response: res.json is called
\* once and no exception leaves the handler.
C17_ChatAnswersOnce ==
    \A t \in Invocations :
        (t.kind = "chat" /\ t.pc = "done") =>
            Len(t.responses) = 1 /\ t.writes = 1 /\ ~t.uncaught

\* the platform a handler passes to getAIResponse (index.js:182, 256)
Platform(t) == IF t.kind = "chat" THEN "web" ELSE "whatsapp"

\* the first 15 bytes of a message
C15_Prefix(message) == SubSeq(message, 1, Min(15, Len(message)))

\* C15: a reply served from the cache for a request (p, m) is the reply a
\* successful completion call produced for some (p', m') with p' = p and with
\* m' having the same first 20 base64 characters, and so the same first 15
\* bytes, as m.
C15_ServedFromOwnKey ==
    \A t \in Handlings :
        (t.apiCalls = 0 /\ Answered(t)) =>
            /\ t.reply = t.seen
            /\ t.seenFrom.platform = Platform(t)
            /\ Base64Slice(t.seenFrom.message, 20) = Base64Slice(t.input.s, 20)
            /\ C15_Prefix(t.seenFrom.message) = C15_Prefix(t.input.s)

\* a reply computed for one message is served to another message with the same
\* prefix, while the same message on the other platform calls the completion
\* client
C15_Witness ==
    /\ last.kind = "chat" /\ last.input = JsString(A15Y) /\ last.apiCalls = 0
    /\ last.seenFrom = [platform |-> "web", message |-> A15X]
    /\ last.reply = JsString("r1")
    /\ \E i \in Slots :
          /\ tasks[i].kind = "message" /\ tasks[i].input = JsString(A15X)
          /\ tasks[i].pc = "awaiting" /\ tasks[i].apiCalls = 1
    /\ CacheKeys(cache) = {CacheKey(A15X, "web")}

\* in this step the completion call of the invocation in slot i fails
C16_Fails(i) ==
    /\ tasks[i].pc = "awaiting"
    /\ \/ tasks'[i].pc = "idle" /\ last'.failed
       \/ tasks'[i].pc # "idle" /\ tasks'[i].failed

\* in this step the completion call of the invocation in slot i succeeds and
\* leaves value under key
C16_Succeeds(i, key, value) ==
    /\ tasks[i].pc = "awaiting"
    /\ key = CacheKey(tasks[i].input.s, Platform(tasks[i]))
    /\ \/ tasks'[i].pc = "idle" /\ ~last'.failed /\ last'.reply = value
       \/ tasks'[i].pc = "replying" /\ tasks'[i].reply = value

\* what C16 says of the cache: no configured error message is a cached value,
\* a failing completion call leaves the cache as it is, and an entry is
\* created or overwritten only by a completion call that succeeds
C16_OnlySuccessStored ==
    /\ [](\A k \in CacheKeys(cache) :
             cache.data[k].v \notin {JsString(ERROR_GENERIC), JsString(ERROR_AI_TIMEOUT)})
    /\ [][/\ \A i \in Slots : C16_Fails(i) => cache' = cache
          /\ \A k \in CacheKeys(cache') :
                (k \notin CacheKeys(cache) \/ cache'.data[k] # cache.data[k])
                    => \E i \in Slots : C16_Succeeds(i, k, cache'.data[k].v)]_vars

\* in this step a handling t starts that is the first to look its key up since
\* a completion call for the key failed, nothing having been stored under the
\* key while that call was in flight or since
C16_Retries(t) ==
    /\ t.cacheGets = 1
    /\ CacheKey(t.input.s, Platform(t)) \in failing
    /\ \/ \E i \in Slots : tasks[i].pc = "idle" /\ tasks'[i] = t
       \/ last' # last /\ last' = t /\ t.apiCalls = 0

\* the invocations the next state shows
C16_Started == {tasks'[i] : i \in Slots} \cup {last'}

C18_Attempted(t) ==
    /\ Len(t.delivered) >= 1
    /\ t.failed => t.delivered = <<JsString(ERROR_GENERIC)>>
    /\ ~t.failed => t.delivered[1] = t.reply
    /\ (~t.failed /\ t.error # "") => t.delivered = <<t.reply, JsString(ERROR_GENERIC)>>

\* C18: every chat message that passes the status@broadcast / fromMe filter
\* leads to a reply attempt to its sender once its completion call returns or
\* times out, and no failure of a reply, the error reply included, leaves the
\* message handler as an uncaught exception.
C18_EveryMessageAnswered ==
    /\ [](\A t \in Invocations :
             t.kind = "message" =>
                 /\ ~t.uncaught
                 /\ (~Skipped(t.from, t.fromMe) /\ t.pc # "awaiting") => C18_Attempted(t))
    /\ \A i \in Slots :
          (tasks[i].kind = "message" /\ tasks[i].pc = "awaiting")
              ~> (tasks[i].kind = "message" /\ C18_Attempted(tasks[i]))

\* the completion call of one message has timed out, and then the first
\* reply and the error reply of the next have failed
C18_Witness ==
    /\ last.kind = "message" /\ ~last.failed /\ last.error = RAW_SEND
    /\ cache.stats.misses = 2 /\ last.apiCalls = 1
    /\ last.delivered = <<JsString("r1"), JsString(ERROR_GENERIC)>>
    /\ ~last.uncaught

\* the message of invocation t passes the filter the claim names
C19_PassesFilter(t) == t.from # "status@broadcast" /\ ~t.fromMe

\* C19: connectedUsers never shrinks and is the set of the senders of the
\* messages that passed the status@broadcast / fromMe filter: it starts empty,
\* it changes only when the handler takes such a message, by adding its sender
\* before the completion call, and so it holds the sender whatever becomes of
\* the completion call and the reply; a sender already in it leaves it as it is.
C19_ActiveUsers ==
    /\ [](\A t \in Invocations :
             (t.kind = "message" /\ C19_PassesFilter(t)) => t.from \in connectedUsers)
    /\ [][/\ connectedUsers \subseteq connectedUsers'
          /\ \A i \in Slots :
                (tasks[i].pc = "idle" /\ tasks'[i].kind = "message") =>
                    /\ C19_PassesFilter(tasks'[i])
                    /\ connectedUsers' = connectedUsers \cup {tasks'[i].from}
          /\ (\A i \in Slots : ~(tasks[i].pc = "idle" /\ tasks'[i].kind = "message"))
                => connectedUsers' = connectedUsers]_vars

\* two senders have been recorded by three messages, one whose completion call
\* failed, and a skipped message has left the set alone
C19_Witness ==
    /\ connectedUsers = {"u1@c.us", "u2@c.us"}
    /\ cache.stats.hits + cache.stats.misses = 3
    /\ last.kind = "message" /\ last.fromMe /\ last.from = "u2@c.us"
    /\ \E i \in Slots : tasks[i].failed /\ tasks[i].from = "u1@c.us"

====
